---------------------------- MODULE Spec2Model ----------------------------
(***************************************************************************)
(* Model of src/app.py: the housing recommendation engine.                 *)
(*                                                                         *)
(*   get_filters                 (Attribute Normalizer)                    *)
(*   calculate_match_percentage  (Compatibility Scorer)                    *)
(*   get_all_houses              (Listing Directory)                       *)
(*   get_all_probas              (Candidate Ranker)                        *)
(*                                                                         *)
(* Python values are tagged records, Python str values are TLA+ strings    *)
(* (Len, \o and SubSeq act on them character by character), Python dicts   *)
(* are functions whose domain is the set of keys present.                  *)
(***************************************************************************)
EXTENDS Integers, Sequences, FiniteSets, TLC

VARIABLES
    pc,                  \* position of the running call
    collection,          \* the MongoDB collection: id -> stored document or NoDoc
    university_uuid,     \* argument of get_all_probas
    houses,              \* get_all_probas: result of get_all_houses()
    house_idx,           \* get_all_probas: position of the for loop in houses
    houses_to_return,    \* get_all_probas: the list being built
    housing_filters,     \* loop local: the candidate's dict (as the scorer left it)
    university_filters,  \* loop local: the seeker's dict (as the scorer left it)
    call,                \* the last calculate_match_percentage call (locals at exit)
    lookupH,             \* the store's answer to the candidate's lookup
    lookupU,             \* the store's answer to the seeker's lookup
    disturbed            \* the store changed, or a lookup failed, during the call

vars == <<pc, collection, university_uuid, houses, house_idx, houses_to_return,
          housing_filters, university_filters, call, lookupH, lookupU, disturbed>>

-----------------------------------------------------------------------------
(* Bounds of the model.                                                    *)

\* integer occupancy limits stored in documents range over 2..MaxOccupants
MaxOccupants == 2
\* number of housing documents the collection can hold
MaxHouses == 2

-----------------------------------------------------------------------------
(* Python values.                                                          *)

PyNone == [t |-> "None", s |-> "", n |-> 0, l |-> <<>>]
PyStr(x) == [t |-> "str", s |-> x, n |-> 0, l |-> <<>>]
PyInt(k) == [t |-> "int", s |-> "", n |-> k, l |-> <<>>]
PyList(q) == [t |-> "list", s |-> "", n |-> 0, l |-> q]

\* dict.get(key, default)
Get(d, key, default) == IF key \in DOMAIN d THEN d[key] ELSE default

\* dict.pop(key, None): the dict afterwards
Pop(d, key) == [k \in (DOMAIN d) \ {key} |-> d[k]]

\* the empty dict {}
EmptyDict == [k \in {} |-> PyNone]

\* needle in hay, for two str: substring test
Contains(hay, needle) ==
    \E i \in 1..(Len(hay) - Len(needle) + 1) :
        SubSeq(hay, i, i + Len(needle) - 1) = needle

\* a + b: [ok |-> FALSE] stands for TypeError
PyAdd(a, b) ==
    IF a.t = "str" /\ b.t = "str" THEN [ok |-> TRUE, v |-> PyStr(a.s \o b.s)]
    ELSE IF a.t = "list" /\ b.t = "list" THEN [ok |-> TRUE, v |-> PyList(a.l \o b.l)]
    ELSE IF a.t = "int" /\ b.t = "int" THEN [ok |-> TRUE, v |-> PyInt(a.n + b.n)]
    ELSE [ok |-> FALSE, v |-> PyNone]

\* whether `label in v` can be evaluated (a str or a list on the right)
PyInDefined(v) == v.t \in {"str", "list"}

\* label in v, label a str: substring of a str, element of a list
PyIn(label, v) ==
    IF v.t = "str" THEN Contains(v.s, label)
    ELSE \E i \in 1..Len(v.l) : v.l[i] = label

\* str.replace(ch, ''), ch one character
RECURSIVE RemoveChar(_, _)
RemoveChar(s, ch) ==
    IF Len(s) = 0 THEN ""
    ELSE LET c == SubSeq(s, 1, 1)
             rest == RemoveChar(SubSeq(s, 2, Len(s)), ch)
         IN IF c = ch THEN rest ELSE c \o rest

Digits == <<"0", "1", "2", "3", "4", "5", "6", "7", "8", "9">>

IsDigit(c) == \E i \in 1..10 : Digits[i] = c

DigitValue(c) == (CHOOSE i \in 1..10 : Digits[i] = c) - 1

RECURSIVE AllDigits(_)
AllDigits(s) ==
    Len(s) = 0 \/ (IsDigit(SubSeq(s, 1, 1)) /\ AllDigits(SubSeq(s, 2, Len(s))))

RECURSIVE DecimalValue(_)
DecimalValue(s) ==
    IF Len(s) = 0 THEN 0
    ELSE DecimalValue(SubSeq(s, 1, Len(s) - 1)) * 10
         + DigitValue(SubSeq(s, Len(s), Len(s)))

RECURSIVE StripSpaces(_)
StripSpaces(s) ==
    IF Len(s) > 0 /\ SubSeq(s, 1, 1) = " " THEN StripSpaces(SubSeq(s, 2, Len(s)))
    ELSE IF Len(s) > 0 /\ SubSeq(s, Len(s), Len(s)) = " "
         THEN StripSpaces(SubSeq(s, 1, Len(s) - 1))
    ELSE s

\* int(v): a decimal literal with optional surrounding blanks and sign parses;
\* any other str is a ValueError, None and lists are a TypeError
IntOf(v) ==
    IF v.t = "int" THEN [kind |-> "ok", n |-> v.n]
    ELSE IF v.t = "str" THEN
        LET b == StripSpaces(v.s)
            signed == Len(b) > 0 /\ SubSeq(b, 1, 1) \in {"-", "+"}
            body == IF signed THEN SubSeq(b, 2, Len(b)) ELSE b
        IN IF Len(body) > 0 /\ AllDigits(body)
           THEN [kind |-> "ok",
                 n |-> IF signed /\ SubSeq(b, 1, 1) = "-"
                       THEN 0 - DecimalValue(body) ELSE DecimalValue(body)]
           ELSE [kind |-> "ValueError", n |-> 0]
    ELSE [kind |-> "TypeError", n |-> 0]

\* A Python float that is either 0.0 or (matched / total) * 100 is kept as the
\* exact fraction <<matched * 100, total>>.  Division and multiplication round
\* monotonically, so two such floats compare as their fractions do.
Float(num, den) == <<num, den>>

FloatEq(a, b) == a[1] * b[2] = b[1] * a[2]

FloatLeq(a, b) == a[1] * b[2] <= b[1] * a[2]

FloatIs(a, k) == a[1] = k * a[2]

-----------------------------------------------------------------------------
(* get_filters.                                                            *)

fields_to_process ==
    <<"animais_estimacao", "preferencia_genero", "numero_maximo_pessoas",
      "frequencia_fumo", "frequencia_bebida">>

FieldSet == {fields_to_process[i] : i \in 1..Len(fields_to_process)}

HexChars == {"0", "1", "2", "3", "4", "5", "6", "7", "8", "9",
             "a", "b", "c", "d", "e", "f", "A", "B", "C", "D", "E", "F"}

RECURSIVE AllHex(_)
AllHex(s) ==
    Len(s) = 0 \/ (SubSeq(s, 1, 1) \in HexChars /\ AllHex(SubSeq(s, 2, Len(s))))

\* uuid.UUID(uuid_str) succeeds: 32 hexadecimal digits once the hyphens are
\* removed (the urn:uuid: prefix and braces are not used by the model's ids)
UUIDValid(uuid_str) ==
    LET hex == RemoveChar(uuid_str, "-") IN Len(hex) = 32 /\ AllHex(hex)

\* a document that is not there
NoDoc == [k \in {"absent"} |-> PyNone]

\* value = user.get(field); brackets are stripped from a str
FilterValue(user, field) ==
    LET value == Get(user, field, PyNone)
    IN IF value.t = "str"
       THEN PyStr(RemoveChar(RemoveChar(value.s, "["), "]"))
       ELSE value

\* variant of get_filters: a field the document lacks gets no key
get_filters_present_only(uuid_str, answer) ==
    IF ~UUIDValid(uuid_str) THEN EmptyDict
    ELSE IF answer.kind = "error" THEN EmptyDict
    ELSE IF answer.user = NoDoc \/ DOMAIN answer.user = {} THEN EmptyDict
    ELSE [field \in FieldSet \cap DOMAIN answer.user |->
            FilterValue(answer.user, field)]

\* get_filters(uuid_str), where `answer` is what collection.find_one gives:
\* [kind |-> "error"] (an exception), or [kind |-> "ok", user |-> doc or NoDoc]
get_filters(uuid_str, answer) ==
    IF ~UUIDValid(uuid_str) THEN EmptyDict
    ELSE IF answer.kind = "error" THEN EmptyDict
    ELSE IF answer.user = NoDoc \/ DOMAIN answer.user = {} THEN EmptyDict
    ELSE [field \in FieldSet |-> FilterValue(answer.user, field)]

-----------------------------------------------------------------------------
(* calculate_match_percentage.                                             *)

NaoTenhoMasAmo == "Não tenho, mas amo"

\* the locals at entry; `counted` (how often each dimension was added to
\* total_filters) and the arguments as passed are kept for the properties
Enter(h, u) ==
    [h |-> h, u |-> u, arg_h |-> h, arg_u |-> u,
     total_filters |-> 0, matched_filters |-> 0,
     counted |-> [f \in FieldSet |-> 0],
     status |-> "run", ret |-> Float(0, 1)]

\* variant of Raised: the exception is not caught and leaves the function
RaisedToCaller(st) == [st EXCEPT !.status = "raised", !.ret = Float(0, 1)]

\* an exception reaches the outer `except Exception`: return 0.0
Raised(st) == [st EXCEPT !.status = "except", !.ret = Float(0, 1)]

\* variant of PetStep: only the candidate's value is searched for the labels
PetStepHousingOnly(st) ==
    LET v == Get(st.h, "animais_estimacao", PyList(<<>>))
    IN IF ~PyInDefined(v) THEN Raised(st)
       ELSE IF PyIn("Alergia", v)
            THEN [st EXCEPT !.status = "veto", !.ret = Float(0, 1)]
       ELSE IF PyIn("Gosto muito", v) \/ PyIn(NaoTenhoMasAmo, v)
            THEN [st EXCEPT !.total_filters = @ + 1,
                            !.matched_filters = @ + 1,
                            !.counted["animais_estimacao"] = @ + 1,
                            !.h = Pop(@, "animais_estimacao"),
                            !.u = Pop(@, "animais_estimacao")]
       ELSE st

PetStep(st) ==
    LET s == PyAdd(Get(st.h, "animais_estimacao", PyList(<<>>)),
                   Get(st.u, "animais_estimacao", PyList(<<>>)))
    IN IF ~s.ok \/ ~PyInDefined(s.v) THEN Raised(st)
       ELSE IF PyIn("Alergia", s.v)
            THEN [st EXCEPT !.status = "veto", !.ret = Float(0, 1)]
       ELSE IF PyIn("Gosto muito", s.v) \/ PyIn(NaoTenhoMasAmo, s.v)
            THEN [st EXCEPT !.total_filters = @ + 1,
                            !.matched_filters = @ + 1,
                            !.counted["animais_estimacao"] = @ + 1,
                            !.h = Pop(@, "animais_estimacao"),
                            !.u = Pop(@, "animais_estimacao")]
       ELSE st

GenderStep(st) ==
    IF st.status # "run" THEN st
    ELSE IF Get(st.h, "preferencia_genero", PyStr("")) = PyStr("Tanto faz")
            \/ Get(st.u, "preferencia_genero", PyStr("")) = PyStr("Tanto faz")
         THEN [st EXCEPT !.total_filters = @ + 1,
                         !.matched_filters = @ + 1,
                         !.counted["preferencia_genero"] = @ + 1,
                         !.h = Pop(@, "preferencia_genero"),
                         !.u = Pop(@, "preferencia_genero")]
    ELSE st

\* variant of OccupancyStep: total_filters += 1 and the two pops sit inside the
\* try block, so a ValueError skips them
OccupancyStepInsideTry(st) ==
    IF st.status # "run" THEN st
    ELSE LET housing_max == IntOf(Get(st.h, "numero_maximo_pessoas", PyInt(0)))
             university_max == IntOf(Get(st.u, "numero_maximo_pessoas", PyInt(0)))
             failure == IF housing_max.kind # "ok" THEN housing_max.kind
                        ELSE university_max.kind
         IN IF failure = "TypeError" THEN Raised(st)
            ELSE IF failure = "ValueError" THEN st
            ELSE [st EXCEPT
                    !.matched_filters =
                        IF housing_max.n <= university_max.n THEN @ + 1 ELSE @,
                    !.total_filters = @ + 1,
                    !.counted["numero_maximo_pessoas"] = @ + 1,
                    !.h = Pop(@, "numero_maximo_pessoas"),
                    !.u = Pop(@, "numero_maximo_pessoas")]

OccupancyStep(st) ==
    IF st.status # "run" THEN st
    ELSE LET housing_max == IntOf(Get(st.h, "numero_maximo_pessoas", PyInt(0)))
             university_max == IntOf(Get(st.u, "numero_maximo_pessoas", PyInt(0)))
             \* int(housing...) is evaluated first; the first failure decides
             failure == IF housing_max.kind # "ok" THEN housing_max.kind
                        ELSE university_max.kind
         IN IF failure = "TypeError" THEN Raised(st)
            ELSE [st EXCEPT
                    !.matched_filters =
                        IF failure = "ok" /\ housing_max.n <= university_max.n
                        THEN @ + 1 ELSE @,
                    !.total_filters = @ + 1,
                    !.counted["numero_maximo_pessoas"] = @ + 1,
                    !.h = Pop(@, "numero_maximo_pessoas"),
                    !.u = Pop(@, "numero_maximo_pessoas")]

other_fields == <<"preferencia_genero", "frequencia_fumo", "frequencia_bebida">>

OtherField(st, field) ==
    [st EXCEPT
        !.matched_filters =
            IF Get(st.h, field, PyNone) = Get(st.u, field, PyNone)
            THEN @ + 1 ELSE @,
        !.total_filters = @ + 1,
        !.counted[field] = @ + 1]

RECURSIVE OtherFieldsLoop(_, _)
OtherFieldsLoop(st, k) ==
    IF k > Len(other_fields) THEN st
    ELSE OtherFieldsLoop(OtherField(st, other_fields[k]), k + 1)

OtherFieldsStep(st) ==
    IF st.status # "run" THEN st ELSE OtherFieldsLoop(st, 1)

Percentage(st) ==
    IF st.status # "run" THEN st
    ELSE IF st.total_filters = 0
         THEN [st EXCEPT !.status = "zero", !.ret = Float(0, 1)]
    ELSE [st EXCEPT !.status = "done",
                    !.ret = Float(st.matched_filters * 100, st.total_filters)]

calculate_match_percentage(housing, university) ==
    Percentage(OtherFieldsStep(OccupancyStep(GenderStep(PetStep(
        Enter(housing, university))))))

-----------------------------------------------------------------------------
(* get_all_houses and get_all_probas.                                      *)

\* the identifiers of the documents whose 'tipo' is 'moradia'
Housing(coll) ==
    {id \in DOMAIN coll :
        coll[id] # NoDoc /\ Get(coll[id], "tipo", PyNone) = PyStr("moradia")}

\* the sequences that list every element of S once (the cursor's orders)
Orders(S) ==
    {q \in [1..Cardinality(S) -> S] : \A a, b \in 1..Cardinality(S) : q[a] = q[b] => a = b}

\* get_all_houses(): the cursor yields the housing documents in `order`;
\* an exception of the query gives []
get_all_houses(order, failed) == IF failed THEN <<>> ELSE order

\* collection.find_one for uuid_str: the stored document, NoDoc, or an error
FindOne(coll, uuid_str, fails) ==
    IF fails THEN [uuid |-> uuid_str, kind |-> "error", user |-> NoDoc]
    ELSE [uuid |-> uuid_str, kind |-> "ok",
          user |-> IF uuid_str \in DOMAIN coll THEN coll[uuid_str] ELSE NoDoc]

\* variant of AppendHouse: a candidate whose filters came back empty is skipped
AppendHouseSkipEmpty(locals, house_uuid, c) ==
    [housing_filters |-> c.h,
     university_filters |-> c.u,
     call |-> c,
     houses_to_return |->
        IF c.arg_h = EmptyDict THEN locals.houses_to_return
        ELSE Append(locals.houses_to_return,
                    [uid |-> house_uuid, probability |-> c.ret])]

\* lines 261-266: the locals after the pass, c being the scorer's call
AppendHouse(locals, house_uuid, c) ==
    [housing_filters |-> c.h,
     university_filters |-> c.u,
     call |-> c,
     houses_to_return |->
        Append(locals.houses_to_return,
               [uid |-> house_uuid, probability |-> c.ret])]

\* variant of LoopBody: the seeker's filters are fetched in the first pass only
\* and the same dict is handed to the scorer in every later pass
LoopBodyCachedSeeker(locals, house_uuid, seeker_uuid, ansH, ansU) ==
    AppendHouse(locals, house_uuid,
                calculate_match_percentage(
                    get_filters(house_uuid, ansH),
                    IF Len(locals.houses_to_return) = 0
                    THEN get_filters(seeker_uuid, ansU)
                    ELSE locals.university_filters))

\* one pass of the for loop of get_all_probas over house_uuid; `locals` are the
\* function's local variables before the pass, ansH and ansU the store's answers
LoopBody(locals, house_uuid, seeker_uuid, ansH, ansU) ==
    AppendHouse(locals, house_uuid,
                calculate_match_percentage(get_filters(house_uuid, ansH),
                                           get_filters(seeker_uuid, ansU)))

\* what get_all_probas returns once the loop is over: the list as built
ReturnValue(built) == built

-----------------------------------------------------------------------------
(* The documents of the model.                                             *)

HouseIds ==
    <<"592f7f4a-ebd2-4b3a-7e46-7e1af20de594",
      "0a1b2c3d-0000-4000-8000-00000000000a",
      "0a1b2c3d-0000-4000-8000-00000000000b",
      "0a1b2c3d-0000-4000-8000-00000000000c">>

SeekerId == "7e1af20d-ebd2-4b3a-7e46-592f7f4ae594"

NotAUUID == "not-a-uuid"

Absent == [t |-> "absent", s |-> "", n |-> 0, l |-> <<>>]

\* a stored document: the keys whose value is not Absent, and its 'tipo'
MakeDoc(tipo, p, g, o, f, b) ==
    LET full == [animais_estimacao |-> p, preferencia_genero |-> g,
                 numero_maximo_pessoas |-> o, frequencia_fumo |-> f,
                 frequencia_bebida |-> b, tipo |-> PyStr(tipo)]
    IN [k \in {x \in DOMAIN full : full[x] # Absent} |-> full[k]]

PetValues ==
    {Absent, PyStr("Tanto faz"), PyStr("[Alergia]"), PyStr("[Gosto muito]"),
     PyStr(NaoTenhoMasAmo), PyStr("Aler"), PyStr("gia"),
     PyList(<<"Gosto muito">>)}

GenderValues == {PyStr("Tanto faz"), PyStr("Feminino"), PyStr("Masculino")}

OccupancyValues ==
    {Absent, PyStr("3"), PyStr("muitas")} \cup {PyInt(k) : k \in 2..MaxOccupants}

FrequencyValues == {PyStr("Nunca"), PyStr("Socialmente")}

PairDocs ==
    {MakeDoc("moradia", p, g, o, f, b) :
        p \in PetValues, g \in GenderValues, o \in OccupancyValues,
        f \in FrequencyValues, b \in FrequencyValues}

\* what one side of a scored pair can be: an identifier and the store's answer
PairSides ==
    {[uuid |-> NotAUUID, kind |-> "ok", user |-> NoDoc],
     [uuid |-> SeekerId, kind |-> "error", user |-> NoDoc],
     [uuid |-> SeekerId, kind |-> "ok", user |-> NoDoc]}
    \cup {[uuid |-> SeekerId, kind |-> "ok", user |-> d] : d \in PairDocs}

NoCall == [Enter(EmptyDict, EmptyDict) EXCEPT !.status = "none"]

-----------------------------------------------------------------------------
(* SpecPair: get_filters twice and calculate_match_percentage once          *)
(* (lines 258-260), on every pair of sides.                                *)

InitPair ==
    /\ pc = "args"
    /\ lookupH \in PairSides
    /\ lookupU \in PairSides
    /\ collection = [id \in {} |-> NoDoc]
    /\ university_uuid = SeekerId
    /\ houses = <<>>
    /\ house_idx = 1
    /\ houses_to_return = <<>>
    /\ housing_filters = EmptyDict
    /\ university_filters = EmptyDict
    /\ call = NoCall
    /\ disturbed = FALSE

\* lines 258-260 for one candidate: both get_filters calls, then the scorer
ScorePair ==
    /\ pc = "args"
    /\ call' = calculate_match_percentage(get_filters(lookupH.uuid, lookupH),
                                          get_filters(lookupU.uuid, lookupU))
    /\ housing_filters' = call'.h
    /\ university_filters' = call'.u
    /\ pc' = "scored"
    /\ UNCHANGED <<collection, university_uuid, houses, house_idx,
                   houses_to_return, lookupH, lookupU, disturbed>>

NextPair == ScorePair

SpecPair == InitPair /\ [][NextPair]_vars

-----------------------------------------------------------------------------
(* Spec: get_all_probas over a collection that other clients may change    *)
(* while the call runs.                                                    *)

HouseIdSet == {HouseIds[k] : k \in 1..MaxHouses}

HouseDocs ==
    {MakeDoc("moradia", PyStr("[Gosto muito]"), PyStr("Tanto faz"), PyInt(2),
             PyStr("Nunca"), PyStr("Nunca")),
     MakeDoc("moradia", PyStr("[Alergia]"), PyStr("Feminino"), PyInt(2),
             PyStr("Nunca"), PyStr("Nunca")),
     MakeDoc("moradia", PyStr("[]"), PyStr("Feminino"), PyStr("3"),
             PyStr("Socialmente"), PyStr("Nunca"))}

SeekerDocs ==
    {MakeDoc("universitario", PyStr("[Gosto muito]"), PyStr("Feminino"), PyInt(2),
             PyStr("Nunca"), PyStr("Socialmente")),
     MakeDoc("universitario", PyStr("[]"), PyStr("Tanto faz"), PyStr("3"),
             PyStr("Nunca"), PyStr("Nunca"))}

Init ==
    /\ pc = "start"
    /\ collection \in
          {c \in [HouseIdSet \cup {SeekerId} -> HouseDocs \cup SeekerDocs \cup {NoDoc}] :
              /\ c[SeekerId] \in SeekerDocs \cup {NoDoc}
              /\ \A id \in HouseIdSet : c[id] \in HouseDocs \cup {NoDoc}}
    /\ university_uuid \in {SeekerId, NotAUUID}
    /\ houses = <<>>
    /\ house_idx = 1
    /\ houses_to_return = <<>>
    /\ housing_filters = EmptyDict
    /\ university_filters = EmptyDict
    /\ call = NoCall
    /\ lookupH = FindOne(collection, NotAUUID, FALSE)
    /\ lookupU = FindOne(collection, NotAUUID, FALSE)
    /\ disturbed = FALSE

\* houses = get_all_houses()
GetAllHouses ==
    /\ pc = "start"
    /\ \E order \in Orders(Housing(collection)), failed \in BOOLEAN :
          /\ houses' = get_all_houses(order, failed)
          /\ disturbed' = failed
    /\ pc' = "loop"
    /\ UNCHANGED <<collection, university_uuid, house_idx, houses_to_return,
                   housing_filters, university_filters, call, lookupH, lookupU>>

\* one pass of `for house_uuid in houses`
Iterate ==
    /\ pc = "loop"
    /\ house_idx <= Len(houses)
    /\ \E failsH \in BOOLEAN, failsU \in BOOLEAN :
          LET house_uuid == houses[house_idx]
              ansH == FindOne(collection, house_uuid, failsH)
              ansU == FindOne(collection, university_uuid, failsU)
          IN \E after \in {LoopBody([houses_to_return |-> houses_to_return,
                                 housing_filters |-> housing_filters,
                                 university_filters |-> university_filters,
                                 call |-> call],
                                house_uuid, university_uuid, ansH, ansU)} :
             /\ lookupH' = ansH
             /\ lookupU' = ansU
             /\ housing_filters' = after.housing_filters
             /\ university_filters' = after.university_filters
             /\ call' = after.call
             /\ houses_to_return' = after.houses_to_return
             /\ disturbed' = (disturbed \/ failsH \/ failsU)
    /\ house_idx' = house_idx + 1
    /\ UNCHANGED <<pc, collection, university_uuid, houses>>

\* return houses_to_return.  get_filters and calculate_match_percentage catch
\* their own failures, so nothing in the loop reaches the except clause of
\* lines 273-275.
Return ==
    /\ pc = "loop"
    /\ house_idx > Len(houses)
    /\ houses_to_return' = ReturnValue(houses_to_return)
    /\ pc' = "done"
    /\ UNCHANGED <<collection, university_uuid, houses, house_idx,
                   housing_filters, university_filters, call, lookupH, lookupU,
                   disturbed>>

\* another client deletes a document while the call runs
RecordDisappears ==
    /\ pc = "loop"
    /\ house_idx <= Len(houses)
    /\ \E id \in DOMAIN collection :
          /\ collection[id] # NoDoc
          /\ collection' = [collection EXCEPT ![id] = NoDoc]
    /\ disturbed' = TRUE
    /\ UNCHANGED <<pc, university_uuid, houses, house_idx, houses_to_return,
                   housing_filters, university_filters, call, lookupH, lookupU>>

Next == GetAllHouses \/ Iterate \/ Return \/ RecordDisappears

Spec == Init /\ [][Next]_vars

-----------------------------------------------------------------------------
(* Properties.  Those of the scorer and the normalizer are checked under   *)
(* SpecPair, those of the ranker under Spec.                               *)

Scored == pc = "scored"

\* the pet value of dict d holds `label`: as a substring of a str, as an
\* element of a list
HasLabel(d, label) ==
    /\ "animais_estimacao" \in DOMAIN d
    /\ PyInDefined(d["animais_estimacao"])
    /\ PyIn(label, d["animais_estimacao"])

\* the occupancy limit the scorer reads from dict d
OccupancyOf(d) == Get(d, "numero_maximo_pessoas", PyInt(0))

\* the normalized form of a stored document
FiltersOf(doc) ==
    get_filters(SeekerId, [uuid |-> SeekerId, kind |-> "ok", user |-> doc])

\* the spec's example pair (section 8), in the code's labels
ExampleCandidate ==
    FiltersOf(MakeDoc("moradia", PyStr("[Gosto muito]"), PyStr("Feminino"),
                      PyInt(2), PyStr("Nunca"), PyStr("Nunca")))

ExampleSeeker ==
    FiltersOf(MakeDoc("moradia", PyStr("Tanto faz"), PyStr("Tanto faz"),
                      PyStr("3"), PyStr("Nunca"), PyStr("Socialmente")))

\* C1: every dimension is added to total_filters at most once, total_filters
\* never exceeds 5, and the example pair ends with total 5, matched 4 and
\* the score 80.0.
C1_EachDimensionOnce ==
    Scored =>
        /\ \A f \in FieldSet : call.counted[f] <= 1
        /\ call.total_filters <= 5
        /\ (call.arg_h = ExampleCandidate /\ call.arg_u = ExampleSeeker) =>
              /\ call.total_filters = 5
              /\ call.matched_filters = 4
              /\ FloatIs(call.ret, 80)

\* what the code does on the example pair: the gender dimension is counted by
\* the wildcard and again by the loop over other_fields
C1_ExampleCountsGenderTwice ==
    (Scored /\ call.arg_h = ExampleCandidate /\ call.arg_u = ExampleSeeker) =>
        /\ call.counted["preferencia_genero"] = 2
        /\ call.total_filters = 6
        /\ call.matched_filters = 5

\* C2: if the pet value of either side holds 'Alergia', the score is exactly
\* 0 and no later rule has touched the counters.
C2_AllergyVeto ==
    (Scored /\ (HasLabel(call.arg_h, "Alergia") \/ HasLabel(call.arg_u, "Alergia"))) =>
        /\ FloatIs(call.ret, 0)
        /\ call.status \in {"veto", "except"}
        /\ call.total_filters = 0
        /\ call.matched_filters = 0

\* C2 witness: the seeker alone holds 'Alergia', the candidate's pet value
\* would otherwise trigger the override, its gender the wildcard.
C2_Witness ==
    /\ Scored
    /\ HasLabel(call.arg_u, "Alergia")
    /\ HasLabel(call.arg_h, "Gosto muito")
    /\ Get(call.arg_h, "preferencia_genero", PyNone) = PyStr("Tanto faz")
    /\ call.status = "veto"
    /\ FloatIs(call.ret, 0)

\* C3: the scorer returns a number in [0, 100], with matched <= total, and
\* never raises, for every pair the normalizer can produce.
C3_ScoreInRange ==
    Scored =>
        /\ call.status \in {"done", "veto", "except", "zero"}
        /\ call.ret[2] > 0
        /\ 0 <= call.ret[1]
        /\ call.ret[1] <= 100 * call.ret[2]
        /\ call.matched_filters <= call.total_filters

\* C3 witness: an empty dict (unknown identifier) against a record whose
\* occupancy is None; the TypeError is caught and the score is 0.
C3_Witness ==
    /\ Scored
    /\ call.arg_h = EmptyDict
    /\ call.arg_u # EmptyDict
    /\ OccupancyOf(call.arg_u) = PyNone
    /\ call.status = "except"
    /\ FloatIs(call.ret, 0)

\* C6 as stated: every dict get_filters returns has exactly the five keys.
C6_AlwaysFiveKeys ==
    Scored => (DOMAIN call.arg_h = FieldSet /\ DOMAIN call.arg_u = FieldSet)

\* the dict get_filters must give for one side
KeysAsCoded(side, d) ==
    IF side.uuid # NotAUUID /\ side.kind = "ok" /\ side.user # NoDoc
    THEN /\ DOMAIN d = FieldSet
         /\ \A f \in FieldSet : f \notin DOMAIN side.user => d[f] = PyNone
    ELSE DOMAIN d = {}

\* C6 (amended): a record that was found gives exactly the five keys, a field
\* the record lacks being present with the value None; an invalid identifier,
\* a record not found and a lookup error give the dict with no key at all.
C6_FiveKeysOrNone ==
    Scored => (KeysAsCoded(lookupH, call.arg_h) /\ KeysAsCoded(lookupU, call.arg_u))

\* C6 witness: an invalid identifier on one side, a found record without
\* numero_maximo_pessoas on the other.
C6_Witness ==
    /\ Scored
    /\ lookupH.uuid = NotAUUID
    /\ call.arg_h = EmptyDict
    /\ lookupU.user # NoDoc
    /\ "numero_maximo_pessoas" \notin DOMAIN lookupU.user
    /\ DOMAIN call.arg_u = FieldSet
    /\ call.arg_u["numero_maximo_pessoas"] = PyNone

OccupancyRemoved ==
    /\ "numero_maximo_pessoas" \notin DOMAIN call.h
    /\ "numero_maximo_pessoas" \notin DOMAIN call.u

\* C7 as stated: in every call the occupancy dimension is counted exactly
\* once and removed from both sides, the veto included.
C7_OccupancyAlwaysOnce ==
    Scored => (call.counted["numero_maximo_pessoas"] = 1 /\ OccupancyRemoved)

\* C7 (amended): a call that runs to the percentage has counted occupancy
\* exactly once and removed it from both sides, whatever the other fields,
\* override and wildcard included; a call ended by the veto or by a caught
\* exception has not added it to total_filters at all.
C7_OccupancyOnceUnlessCutShort ==
    Scored =>
        /\ call.status = "done" =>
              (call.counted["numero_maximo_pessoas"] = 1 /\ OccupancyRemoved)
        /\ call.status # "done" => call.counted["numero_maximo_pessoas"] = 0

\* C7 witness: override and wildcard both applied, occupancy unparsable,
\* and occupancy counted once.
C7_Witness ==
    /\ Scored
    /\ call.status = "done"
    /\ call.counted["animais_estimacao"] = 1
    /\ call.counted["preferencia_genero"] >= 1
    /\ OccupancyOf(call.arg_h) = PyStr("muitas")
    /\ call.counted["numero_maximo_pessoas"] = 1
    /\ OccupancyRemoved

\* C8: with equal occupancy limits the score does not depend on which side
\* is the candidate.
C8_RoleSymmetry ==
    (Scored /\ OccupancyOf(call.arg_h) = OccupancyOf(call.arg_u)) =>
        FloatEq(call.ret, calculate_match_percentage(call.arg_u, call.arg_h).ret)

\* the occupancy value of dict d cannot be coerced by int()
Uncoercible(d) == IntOf(OccupancyOf(d)).kind # "ok"

\* C9: when the occupancy of either side cannot be coerced and the pet rule
\* has not ended the call, occupancy counts as not matched, total is still
\* incremented, the scalar fields are scored and the score is
\* matched / total * 100.
C9_ParseFailureLocal ==
    (/\ Scored
     /\ Uncoercible(call.arg_h) \/ Uncoercible(call.arg_u)
     /\ PetStep(Enter(call.arg_h, call.arg_u)).status = "run") =>
        /\ call.status = "done"
        /\ call.counted["numero_maximo_pessoas"] = 1
        /\ call.counted["frequencia_fumo"] = 1
        /\ call.counted["frequencia_bebida"] = 1
        /\ call.matched_filters < call.total_filters
        /\ call.ret = Float(call.matched_filters * 100, call.total_filters)

-----------------------------------------------------------------------------

Done == pc = "done"

C5_SortedDescending ==
    Done =>
        \A k \in 1..(Len(houses_to_return) - 1) :
            FloatLeq(houses_to_return[k + 1].probability,
                     houses_to_return[k].probability)

\* the score of candidate id on fresh normalizations from the store
FreshScore(id) ==
    calculate_match_percentage(
        get_filters(id, FindOne(collection, id, FALSE)),
        get_filters(university_uuid, FindOne(collection, university_uuid, FALSE))).ret

\* C10: with an undisturbed store, the score reported for a candidate is the
\* scorer's result on fresh normalizations of the candidate and the seeker,
\* at every position and after any earlier candidates.
C10_NoLeakBetweenCandidates ==
    ~disturbed =>
        \A k \in 1..Len(houses_to_return) :
            FloatEq(houses_to_return[k].probability,
                    FreshScore(houses_to_return[k].uid))

\* C10 witness: two candidates scored on an undisturbed store, the scorer
\* having removed fields from the seeker's dict, the second score not 0.
C10_Witness ==
    /\ Done
    /\ ~disturbed
    /\ Len(houses_to_return) >= 2
    /\ DOMAIN call.u # DOMAIN call.arg_u
    /\ ~FloatIs(houses_to_return[1].probability, 0)
    /\ ~FloatIs(houses_to_return[2].probability, 0)

=============================================================================
